---- MODULE Spec2Model ----
(***************************************************************************)
(* Model of the Molecule class of src/_classes/_Molecule.py (Python 2).    *)
(*                                                                         *)
(* A formula string is a sequence of one-character strings, a composition  *)
(* (a Python dict) is a function from keys (strings) to integers.          *)
(* Two specifications are given:                                           *)
(*   Spec        the life of one Molecule instance: construction, the      *)
(*               mutation operators __add__, __sub__, __mul__, __div__     *)
(*               and reset();                                              *)
(*   ParserSpec  the formula parser and the formula generator applied to   *)
(*               bounded input strings.                                    *)
(***************************************************************************)
EXTENDS Integers, Sequences, FiniteSets, TLC

VARIABLES inst, comp, ks, attrs, original, last, memo, ctor,
          pstage, pin, pout,
          ipstage, ipin, ippos, rawip, barip

vars == <<inst, comp, ks, attrs, original, last, memo, ctor, pstage, pin, pout,
          ipstage, ipin, ippos, rawip, barip>>

lifevars == <<inst, comp, ks, attrs, original, last, memo, ctor>>

parservars == <<pstage, pin, pout>>

patternvars == <<ipstage, ipin, ippos, rawip, barip>>

(***************************************************************************)
(* Bounds of the model.                                                    *)
(***************************************************************************)
\* longest generic input string of ParserSpec
MaxLen == 3

\* largest number of calls made on the instance of Spec after construction
MaxCalls == 3

(***************************************************************************)
(* Characters and the str methods the parser uses.                         *)
(***************************************************************************)
Digit == {"0", "1", "2", "3", "4", "5", "6", "7", "8", "9"}

Upper == {"B", "C", "H", "M", "O", "Q"}

Lower == {"e", "l"}

Alpha == Upper \cup Lower

\* start brackets and closing brackets, paired by index
sbrack == <<"(", "{", "[">>

ebrack == <<")", "}", "]">>

SBrackSet == {sbrack[i] : i \in 1..3}

modes == {"+", "-"}

\* code point of every character of the model (order used by sorted())
Ord == [c \in Digit \cup Upper \cup Lower \cup SBrackSet \cup {ebrack[i] : i \in 1..3} \cup modes |->
          CASE c = "(" -> 40 [] c = ")" -> 41 [] c = "+" -> 43 [] c = "-" -> 45
            [] c = "0" -> 48 [] c = "1" -> 49 [] c = "2" -> 50 [] c = "3" -> 51
            [] c = "4" -> 52 [] c = "5" -> 53 [] c = "6" -> 54 [] c = "7" -> 55
            [] c = "8" -> 56 [] c = "9" -> 57
            [] c = "B" -> 66 [] c = "C" -> 67 [] c = "H" -> 72 [] c = "M" -> 77
            [] c = "O" -> 79 [] c = "Q" -> 81
            [] c = "[" -> 91 [] c = "]" -> 93
            [] c = "e" -> 101 [] c = "l" -> 108
            [] c = "{" -> 123 [] c = "}" -> 125]

\* s[from..] in 1-based positions: Python's s[from-1:]
Tail_(s, from) == SubSeq(s, from, Len(s))

\* Python's str comparison a < b
StrLess(a, b) ==
    \E n \in 0..Len(a) :
        /\ n <= Len(b)
        /\ \A j \in 1..n : a[j] = b[j]
        /\ \/ n = Len(a) /\ n < Len(b)
           \/ n < Len(a) /\ n < Len(b) /\ Ord[a[n + 1]] < Ord[b[n + 1]]

DigitVal == [c \in Digit |->
               CASE c = "0" -> 0 [] c = "1" -> 1 [] c = "2" -> 2 [] c = "3" -> 3
                 [] c = "4" -> 4 [] c = "5" -> 5 [] c = "6" -> 6 [] c = "7" -> 7
                 [] c = "8" -> 8 [] c = "9" -> 9]

DigitChr == [d \in 0..9 |-> CHOOSE c \in Digit : DigitVal[c] = d]

\* int(s) for a string of decimal digits
RECURSIVE IntOf(_)
IntOf(s) ==
    IF s = <<>> THEN 0
    ELSE 10 * IntOf(SubSeq(s, 1, Len(s) - 1)) + DigitVal[s[Len(s)]]

\* str(n) for n >= 0
RECURSIVE StrOf(_)
StrOf(n) ==
    IF n < 10 THEN <<DigitChr[n]>>
    ELSE Append(StrOf(n \div 10), DigitChr[n % 10])

(***************************************************************************)
(* Dictionaries.                                                           *)
(***************************************************************************)
EmptyDict == [k \in {} |-> 0]

\* for key in b: try a[key] += b[key] except KeyError: a[key] = b[key]
Merge(a, b) ==
    [k \in DOMAIN a \cup DOMAIN b |->
        (IF k \in DOMAIN a THEN a[k] ELSE 0) + (IF k \in DOMAIN b THEN b[k] ELSE 0)]

\* the same with every count of b multiplied by n
MergeTimes(a, b, n) ==
    [k \in DOMAIN a \cup DOMAIN b |->
        (IF k \in DOMAIN a THEN a[k] ELSE 0) + (IF k \in DOMAIN b THEN b[k] * n ELSE 0)]

\* the orders in which a dict with key set S can be iterated
Orders(S) ==
    {o \in [1..Cardinality(S) -> S] : \A i, j \in 1..Cardinality(S) : o[i] = o[j] => i = j}

(***************************************************************************)
(* Molecule.interpretcharge                                                *)
(***************************************************************************)
\* the characters of string that are not a sign, in order
RECURSIVE ChargeValue(_)
ChargeValue(string) ==
    IF string = <<>> THEN <<>>
    ELSE IF string[1] \in modes THEN ChargeValue(Tail(string))
    ELSE <<string[1]>> \o ChargeValue(Tail(string))

\* the last sign character of string, "+" if there is none
RECURSIVE ChargeSign(_, _)
ChargeSign(string, sign) ==
    IF string = <<>> THEN sign
    ELSE ChargeSign(Tail(string), IF string[1] \in modes THEN string[1] ELSE sign)

\* the return of interpretcharge for a str whose characters other than the
\* signs are value: err is set when int(value) raises ValueError
ChargeOf(string, value) ==
    IF value # <<>> /\ \A i \in 1..Len(value) : value[i] \in Digit
    THEN [err |-> "", charge |-> IntOf(value), sign |-> ChargeSign(string, "+")]
    ELSE [err |-> "BadCharge", charge |-> 0, sign |-> "+"]

\* interpretcharge(string) for a str
interpretcharge(string) == ChargeOf(string, ChargeValue(string))

(***************************************************************************)
(* Molecule.composition and its nested functions                           *)
(***************************************************************************)
\* digits of block after its first character, in order
RECURSIVE BlockNum(_)
BlockNum(s) ==
    IF s = <<>> THEN <<>>
    ELSE IF s[1] \in Digit THEN <<s[1]>> \o BlockNum(Tail(s))
    ELSE BlockNum(Tail(s))

\* the other characters of block after its first character, in order
RECURSIVE BlockEle(_)
BlockEle(s) ==
    IF s = <<>> THEN <<>>
    ELSE IF s[1] \in Digit THEN BlockEle(Tail(s))
    ELSE <<s[1]>> \o BlockEle(Tail(s))

\* the dict interpret returns for element ele and digits num
Counted(ele, num) == [key \in {ele} |-> IF num = <<>> THEN 1 ELSE IntOf(num)]

\* interpret(block): one key with its count
interpret(block) ==
    IF block[1] \in Digit THEN [key \in {block} |-> 1]
    ELSE Counted(<<block[1]>> \o BlockEle(Tail(block)), BlockNum(Tail(block)))

\* 1-based position of the close bracket matching form[1], 0 if there is none
CloseAt(form) ==
    LET bt == CHOOSE t \in 1..3 : sbrack[t] = form[1]
        Count(c, loc) == Cardinality({j \in 2..loc : form[j] = c})
        nest(loc) == 1 + Count(sbrack[bt], loc) - Count(ebrack[bt], loc)
        closes == {loc \in 2..Len(form) : form[loc] = ebrack[bt] /\ nest(loc) = 0}
    IN  IF closes = {} THEN 0
        ELSE CHOOSE loc \in closes : \A l2 \in closes : loc <= l2

\* the digits of form from position i on, up to the first non-digit
RECURSIVE DigitRun(_, _)
DigitRun(form, i) ==
    IF i > Len(form) \/ form[i] \notin Digit THEN <<>>
    ELSE <<form[i]>> \o DigitRun(form, i + 1)

\* 1-based position at which the element block of formula stops: the first
\* uppercase character or start bracket after the first character
BlockStop(formula) ==
    LET stops == {loc \in 2..Len(formula) :
                     formula[loc] \in Upper \/ formula[loc] \in SBrackSet}
    IN  IF stops = {} THEN Len(formula) + 1
        ELSE CHOOSE loc \in stops : \A l2 \in stops : loc <= l2

\* the return of chewformula for a formula that starts with the element
\* block of the given text
ChewElement(formula, block, k) ==
    [err |-> "", rest |-> Tail_(formula, Len(block) + 1), dict |-> interpret(block), ks |-> k]

\* ChewCharge without the assignment to self.ks['charge'], self.ks['sign']
ChewChargeUnstored(formula, c, k) ==
    IF c.err # ""
    THEN [err |-> c.err, rest |-> formula, dict |-> EmptyDict, ks |-> k]
    ELSE [err |-> "", rest |-> <<>>, dict |-> EmptyDict, ks |-> k]

\* the end of chewformula for a formula of digits without letters, c being
\* what interpretcharge(formula) returned
ChewCharge(formula, c, k) ==
    IF c.err # ""
    THEN [err |-> c.err, rest |-> formula, dict |-> EmptyDict, ks |-> k]
    ELSE [err |-> "", rest |-> <<>>, dict |-> EmptyDict,
          ks |-> [charge |-> c.charge, sign |-> c.sign]]

RECURSIVE chewformula(_, _)
RECURSIVE bracket(_, _)
RECURSIVE ChewBlock(_, _, _, _)

\* chewformula(formula) run with self.ks = k; formula is not empty.
\* err "TypeError": the function falls off its end and the caller unpacks None
chewformula(formula, k) ==
    IF formula[1] \in Upper
    THEN ChewElement(formula, SubSeq(formula, 1, BlockStop(formula) - 1), k)
    ELSE IF formula[1] \in SBrackSet
    THEN bracket(formula, k)
    ELSE IF formula[1] \in Digit
    THEN IF \E i \in 1..Len(formula) : formula[i] \in Alpha
         THEN [err |-> "", rest |-> <<>>, dict |-> [key \in {formula} |-> 1], ks |-> k]
         ELSE ChewCharge(formula, interpretcharge(formula), k)
    ELSE [err |-> "TypeError", rest |-> formula, dict |-> EmptyDict, ks |-> k]

\* one pass of the loop "while len(block) > 0" of bracket, r being what
\* chewformula(block) returned
ChewBlockStep(r, bnum, outdict) ==
    IF r.err # "" THEN [err |-> r.err, dict |-> outdict, ks |-> r.ks]
    ELSE ChewBlock(r.rest, bnum, MergeTimes(outdict, r.dict, bnum), r.ks)

\* the loop "while len(block) > 0" of bracket
ChewBlock(block, bnum, outdict, k) ==
    IF block = <<>> THEN [err |-> "", dict |-> outdict, ks |-> k]
    ELSE ChewBlockStep(chewformula(block, k), bnum, outdict)

\* the return of bracket: form[lblock:] and outdict, r being the outcome of
\* the loop
BracketReturn(form, lblock, r) ==
    [err |-> r.err, rest |-> Tail_(form, lblock + 1), dict |-> r.dict, ks |-> r.ks]

\* BracketClosed with lblock = len(block) + 2: the digits after the close
\* bracket are not counted
BracketClosedShort(form, block, bnum, k) ==
    BracketReturn(form, Len(block) + 2,
                  ChewBlock(block, IF bnum = <<>> THEN 1 ELSE IntOf(bnum), EmptyDict, k))

\* bracket after the close bracket was found: block is the text inside the
\* brackets and bnum the digits after the close bracket
BracketClosed(form, block, bnum, k) ==
    BracketReturn(form, Len(block) + Len(bnum) + 2,
                  ChewBlock(block, IF bnum = <<>> THEN 1 ELSE IntOf(bnum), EmptyDict, k))

\* bracket with the scan for the close bracket done
BracketAt(form, close, k) ==
    IF close = 0
    THEN [err |-> "UnclosedBracket", rest |-> form, dict |-> EmptyDict, ks |-> k]
    ELSE BracketClosed(form, SubSeq(form, 2, close - 1), DigitRun(form, close + 1), k)

\* bracket(form): form[1] is a start bracket
bracket(form, k) == BracketAt(form, CloseAt(form), k)

\* _formabbrvs.abbrvs restricted to the keys of the model
abbrvs == [a \in {<<"M", "e">>} |-> [e \in {<<"C">>, <<"H">>} |-> IF e = <<"C">> THEN 1 ELSE 3]]

\* the keys abbreviations() writes for one key of dic
SubKeys(key) == IF key \in DOMAIN abbrvs THEN DOMAIN abbrvs[key] ELSE {key}

\* what one key of dic adds to comptemp[sub]
Contribution(dic, key, sub) ==
    IF key \in DOMAIN abbrvs
    THEN (IF sub \in DOMAIN abbrvs[key] THEN abbrvs[key][sub] * dic[key] ELSE 0)
    ELSE (IF sub = key THEN dic[key] ELSE 0)

RECURSIVE SumContribution(_, _, _)
SumContribution(dic, S, sub) ==
    IF S = {} THEN 0
    ELSE LET key == CHOOSE x \in S : TRUE
         IN  Contribution(dic, key, sub) + SumContribution(dic, S \ {key}, sub)

\* abbreviations(dic)
abbreviations(dic) ==
    [sub \in UNION {SubKeys(key) : key \in DOMAIN dic} |-> SumContribution(dic, DOMAIN dic, sub)]

RECURSIVE ChewAll(_, _, _)

\* one pass of the loop "while len(formula) > 0" of composition, r being what
\* chewformula(formula) returned
ChewAllStep(r, c) ==
    IF r.err # "" THEN [err |-> r.err, comp |-> c, ks |-> r.ks]
    ELSE ChewAll(r.rest, Merge(c, r.dict), r.ks)

\* the loop "while len(formula) > 0" of composition
ChewAll(formula, c, k) ==
    IF formula = <<>> THEN [err |-> "", comp |-> c, ks |-> k]
    ELSE ChewAllStep(chewformula(formula, k), c)

\* the end of composition, r being the outcome of the loop
Abbreviated(r) ==
    IF r.err # "" THEN r
    ELSE [err |-> "", comp |-> abbreviations(r.comp), ks |-> r.ks]

\* composition(formula) run with self.ks = k: the composition returned (when
\* err = "") and self.ks afterwards
composition(formula, k) == Abbreviated(ChewAll(formula, EmptyDict, k))

(***************************************************************************)
(* Molecule.molecularformula                                               *)
(***************************************************************************)
\* key followed by its count when the count is above 1
KeyText(c, key) == key \o (IF c[key] > 1 THEN StrOf(c[key]) ELSE <<>>)

\* the keys of S in the order of sorted()
RECURSIVE SortedText(_, _)
SortedText(c, S) ==
    IF S = {} THEN <<>>
    ELSE LET m == CHOOSE x \in S : \A y \in S \ {x} : StrLess(x, y)
         IN  KeyText(c, m) \o SortedText(c, S \ {m})

molecularformula(c) ==
    (IF <<"C">> \in DOMAIN c THEN KeyText(c, <<"C">>) ELSE <<>>)
    \o (IF <<"H">> \in DOMAIN c THEN KeyText(c, <<"H">>) ELSE <<>>)
    \o SortedText(c, DOMAIN c \ {<<"C">>, <<"H">>})

(***************************************************************************)
(* The mass dictionary and the validation of composition keys              *)
(***************************************************************************)
\* _nist_mass.nist_mass restricted to the elements of the model: the isotope
\* numbers each element has an entry for (0 is the aggregate entry)
md == [e \in {<<"B">>, <<"C">>, <<"H">>, <<"O">>} |->
         CASE e = <<"B">> -> {0, 10, 11}
           [] e = <<"C">> -> {0, 12, 13, 14}
           [] e = <<"H">> -> {0, 1, 2, 3}
           [] e = <<"O">> -> {0, 16, 17, 18}]

\* the while loop of isotope(string) from 1-based position i on.
\* out "hang": string[i] is neither a digit nor a letter, i never advances;
\* out "IndexError": the second test reads string[i] past the end
RECURSIVE IsotopeLoop(_, _, _, _)
IsotopeLoop(string, i, iso, ele) ==
    IF i > Len(string) THEN [out |-> "ok", iso |-> iso, ele |-> ele]
    ELSE IF string[i] \in Digit
    THEN IF i + 1 > Len(string) THEN [out |-> "IndexError", iso |-> iso, ele |-> ele]
         ELSE IF string[i + 1] \in Alpha
              THEN IsotopeLoop(string, i + 2, Append(iso, string[i]), Append(ele, string[i + 1]))
              ELSE IsotopeLoop(string, i + 1, Append(iso, string[i]), ele)
    ELSE IF string[i] \in Alpha
    THEN IsotopeLoop(string, i + 1, iso, Append(ele, string[i]))
    ELSE [out |-> "hang", iso |-> iso, ele |-> ele]

\* the return of isotope, r being the outcome of its loop: out
\* "UnknownSpecies" is the descriptive ValueError raised when int(iso) fails
IsotopeReturn(r) ==
    IF r.out # "ok" THEN [out |-> r.out, ele |-> r.ele, iso |-> 0]
    ELSE IF \A j \in 1..Len(r.iso) : r.iso[j] \in Digit
    THEN [out |-> "ok", ele |-> r.ele, iso |-> IntOf(r.iso)]
    ELSE [out |-> "UnknownSpecies", ele |-> r.ele, iso |-> 0]

\* isotope(string)
isotope(string) == IsotopeReturn(IsotopeLoop(string, 2, <<string[1]>>, <<>>))

\* checkinnist for a key that is no key of md, r being what isotope returned
CheckIsotope(r) ==
    IF r.out # "ok" THEN r.out
    ELSE IF r.ele \notin DOMAIN md THEN "KeyError"
    ELSE IF r.iso \notin md[r.ele] THEN "UnknownIsotope"
    ELSE "ok"

\* what the body of checkinnist's loop does for one key
CheckKey(key) == IF key \in DOMAIN md THEN "ok" ELSE CheckIsotope(isotope(key))

\* the outcomes of a loop over the keys that stops at the first key whose
\* outcome is not "ok", in the order of the dict
FirstBad(outs) == IF outs \ {"ok"} = {} THEN {"ok"} ELSE outs \ {"ok"}

\* checkinnist(comp)
checkinnist(c) == FirstBad({CheckKey(key) : key \in DOMAIN c})

\* molecularweight for a key that is no key of md, r being what isotope
\* returned
WeighIsotope(r) ==
    IF r.out # "ok" THEN r.out
    ELSE IF r.ele \notin DOMAIN md \/ r.iso \notin md[r.ele] THEN "KeyError"
    ELSE "ok"

\* what the body of molecularweight's loop does for one key
WeighKey(key) == IF key \in DOMAIN md THEN "ok" ELSE WeighIsotope(isotope(key))

\* the end of molecularweight, outs being the outcomes of its first loop.
\* The weight is 0, and the percent composition divides by it, exactly when
\* the composition has keys and counts no atom
PercentComposition(c, outs) ==
    IF outs # {"ok"} THEN outs
    ELSE IF c # EmptyDict /\ \A key \in DOMAIN c : c[key] = 0 THEN {"ZeroDivisionError"}
    ELSE {"ok"}

\* molecularweight(): the outcomes it can have
molecularweight(c) == PercentComposition(c, FirstBad({WeighKey(key) : key \in DOMAIN c}))

\* barisotopepattern(rawip, charge) divides every mass by abs(charge)
barisotopepattern(charge) == IF charge = 0 THEN "ZeroDivisionError" ELSE "ok"

(***************************************************************************)
(* Molecule.calculate                                                      *)
(*                                                                         *)
(* The instance attributes are the record a: formula and sf are strings;   *)
(* mw (with pcomp), rawip and barip (with em, fwhm, sigma) are functions   *)
(* of the composition and the charge, and are represented by the           *)
(* composition and charge they were computed from.                         *)
(***************************************************************************)
\* calculate with the outcomes of the functions it calls: sf the formula
\* generated, weigh the outcomes of molecularweight, bar the outcome of
\* barisotopepattern
Calculated(a, c, k, sf, weigh, bar) ==
    {[out |-> o, attrs |-> [a EXCEPT !.sf = sf]] : o \in weigh \ {"ok"}}
    \cup (IF "ok" \notin weigh THEN {}
          ELSE IF bar # "ok"
          THEN {[out |-> bar, attrs |-> [a EXCEPT !.sf = sf, !.mw = c, !.rawip = c]]}
          ELSE {[out |-> "ok",
                 attrs |-> [a EXCEPT !.sf = sf, !.mw = c, !.rawip = c,
                                     !.barip = [comp |-> c, charge |-> k.charge]]]})

\* calculate(): the outcomes it can have, each with the attributes it leaves
calculate(a, c, k) ==
    Calculated(a, c, k, molecularformula(c), molecularweight(c), barisotopepattern(k.charge))

(***************************************************************************)
(* The loops of the mutation operators                                     *)
(***************************************************************************)
\* self.comp without key
Without(c, key) == [x \in DOMAIN c \ {key} |-> c[x]]

\* the for loop of __sub__ over the keys of addition in the given order,
\* from position i on.  out "MissingKeyMessage": the KeyError handler
\* returns a message; out "NegativeAmount": the ValueError is raised.  comp is self.comp when
\* the loop is left.  (x - y is 0 holds exactly when x - y = 0: the result
\* of an int subtraction that is 0 is CPython's cached small int.)
RECURSIVE SubLoop(_, _, _, _)
SubLoop(c, addition, order, i) ==
    IF i > Len(order) THEN [out |-> "ok", comp |-> c]
    ELSE LET key == order[i]
         IN  IF key \notin DOMAIN c THEN [out |-> "MissingKeyMessage", comp |-> c]
             ELSE IF c[key] - addition[key] > 0
             THEN SubLoop([c EXCEPT ![key] = c[key] - addition[key]], addition, order, i + 1)
             ELSE IF c[key] - addition[key] = 0
             THEN SubLoop(Without(c, key), addition, order, i + 1)
             ELSE [out |-> "NegativeAmount", comp |-> c]

Abs(n) == IF n < 0 THEN -n ELSE n

\* float(a)/float(x) is an integer, for x # 0
Divides(x, a) == Abs(a) % Abs(x) = 0

\* int(float(a)/float(x)) when x divides a
Quotient(a, x) ==
    IF (a < 0) = (x < 0) THEN Abs(a) \div Abs(x) ELSE -(Abs(a) \div Abs(x))

\* the for loop of __div__ over the keys of self.comp in the given order
RECURSIVE DivLoop(_, _, _, _)
DivLoop(c, x, order, i) ==
    IF i > Len(order) THEN [out |-> "ok", comp |-> c]
    ELSE LET key == order[i]
         IN  IF x = 0 THEN [out |-> "ZeroDivisionError", comp |-> c]
             ELSE IF ~Divides(x, c[key]) THEN [out |-> "NonInteger", comp |-> c]
             ELSE DivLoop([c EXCEPT ![key] = Quotient(c[key], x)], x, order, i + 1)

\* the for loop of __mul__
MulAll(c, x) == [key \in DOMAIN c |-> c[key] * x]

(***************************************************************************)
(* Inputs of Spec                                                          *)
(***************************************************************************)
\* formula strings a Molecule is constructed from
CtorFormulas ==
    { <<"C", "H", "2">>, <<"H", "2", "C">>, <<"C", "H", "0">>, <<"(", "2", "H", ")", "2">>,
      <<"C">>, <<"O", "H">>, <<"2", "+">>, <<"H", "0">>, <<"(", "C">>, <<"Q">>, <<"2", "+", "C">>, <<"0">>,
      <<"2", "Q">>, <<"2", "H", "2">> }

\* values of the charge keyword argument
ChargeArgs == {1}

\* string operands of + and -
StrOperands ==
    { <<"H">>, <<"C", "2", "H">>,
      <<"(", "2", "+", ")">>, <<"(", "2", "+", ")", "(">>, <<"H", ")">> }

\* formulas of the Molecule operands of + and -
MolOperands == { <<"H", "2">> }

\* int operands of * and /
IntOperands == {-1, 0, 2}

(***************************************************************************)
(* Spec: one Molecule instance                                             *)
(*                                                                         *)
(*   inst      "live": constructed; "noinst": __init__ raised; "hung": a   *)
(*             call never returned                                         *)
(*   comp      the dict self.comp (one object, shared with the snapshot)   *)
(*   ks        charge and sign of the dict self.ks (one object as well)    *)
(*   attrs     the other entries of self.__dict__                          *)
(*   original  the shallow copy of __dict__ made by default()              *)
(*   last      the last call: operator, outcome, its number, whether it    *)
(*             parsed a formula string, and in rt, when it subtracted the  *)
(*             string D the call before it added and returned from, that   *)
(*             string and self.comp before the addition (history)          *)
(*   memo      operand and self.comp before the last call when it was an   *)
(*             addition of a formula string (history)                      *)
(*   ctor      constructor arguments and the state right after             *)
(*             construction (history)                                      *)
(***************************************************************************)
NoAttrs == [formula |-> <<>>, sf |-> <<>>, mw |-> EmptyDict, rawip |-> EmptyDict,
            barip |-> [comp |-> EmptyDict, charge |-> 0]]

NoMemo == [on |-> FALSE, D |-> <<>>, pre |-> EmptyDict]

NoRt == [on |-> FALSE, D |-> <<>>, pre |-> EmptyDict]

Call(op, out, parsed, rt, n) ==
    [op |-> op, out |-> out, parsed |-> parsed, rt |-> rt, n |-> n]

NoOut == [err |-> "", comp |-> EmptyDict, ks |-> [charge |-> 0, sign |-> "+"],
          rest |-> <<>>, sf |-> <<>>, re |-> [err |-> "", comp |-> EmptyDict]]

ParserIdle ==
    /\ pstage = "off"
    /\ pin = <<>>
    /\ pout = NoOut

\* a pattern [[mz values],[intensity values]]: the masses mz in thousandths
\* of a mass unit, the intensity of entry i being the fraction 100*n[i]/d
NoPattern == [mz |-> <<>>, n |-> <<>>, d |-> 1]

\* no bar pattern made yet
NoBar == [err |-> "", mz |-> <<>>, n |-> <<>>, d |-> 1]

\* the pattern engine is not part of this specification
PatternIdle ==
    /\ ipstage = "off"
    /\ ipin = [given |-> FALSE, comp |-> EmptyDict, order |-> <<>>, charge |-> 0]
    /\ ippos = [key |-> 0, n |-> 0]
    /\ rawip = NoPattern
    /\ barip = NoBar

\* default(): self.original = dict(self.__dict__), a copy made before the
\* entry 'original' exists, holding the same comp and ks objects
default(a) == [on |-> TRUE, attrs |-> a]

\* __init__(string, charge = q) did not return an instance
InitFails(string, q, out, k) ==
    /\ inst = IF out = "hang" THEN "hung" ELSE "noinst"
    /\ comp = EmptyDict
    /\ ks = k
    /\ attrs = NoAttrs
    /\ original = [on |-> FALSE, attrs |-> NoAttrs]
    /\ last = Call("init", out, TRUE, NoRt, 0)
    /\ memo = NoMemo
    /\ ctor = [formula |-> string, charge |-> q, comp |-> EmptyDict, ks |-> k, attrs |-> NoAttrs]

\* the end of __init__ : self.calculate() had the outcome cal, then
\* self.default()
Calculate0(string, q, p, cal) ==
    IF cal.out # "ok" THEN InitFails(string, q, cal.out, p.ks)
    ELSE /\ inst = "live"
         /\ comp = p.comp
         /\ ks = p.ks
         /\ attrs = cal.attrs
         /\ original = default(cal.attrs)
         /\ last = Call("init", "ok", TRUE, NoRt, 0)
         /\ memo = NoMemo
         /\ ctor = [formula |-> string, charge |-> q, comp |-> p.comp,
                    ks |-> p.ks, attrs |-> cal.attrs]

\* __init__ from self.comp = self.composition(self.formula) on, p being what
\* composition had as outcome
Composed(string, q, p) ==
    IF p.err # "" THEN InitFails(string, q, p.err, p.ks)
    ELSE \E chk \in checkinnist(p.comp) :
           IF chk # "ok" THEN InitFails(string, q, chk, p.ks)
           ELSE \E cal \in calculate([NoAttrs EXCEPT !.formula = string], p.comp, p.ks) :
                  Calculate0(string, q, p, cal)

\* __init__(string, charge = q)
Construct(string, q) ==
    Composed(string, q, composition(string, [charge |-> q, sign |-> "+"]))

Init ==
    /\ ParserIdle
    /\ PatternIdle
    /\ \E string \in CtorFormulas, q \in ChargeArgs :
          Construct(string, q)

\* the tail shared by the mutation operators once self.comp is c:
\* self.calculate(); self.formula = self.sf; return self.sf
Recalculate(op, c, k, parsed, rt) ==
    \E cal \in calculate(attrs, c, k) :
        /\ comp' = c
        /\ ks' = k
        /\ attrs' = IF cal.out = "ok" THEN [cal.attrs EXCEPT !.formula = cal.attrs.sf]
                    ELSE cal.attrs
        /\ inst' = IF cal.out = "hang" THEN "hung" ELSE inst
        /\ last' = Call(op, cal.out, parsed, rt, last.n + 1)

\* the call raised, or returned early, with self.comp = c and self.ks = k
Leave(op, out, c, k, parsed, rt) ==
    /\ comp' = c
    /\ ks' = k
    /\ last' = Call(op, out, parsed, rt, last.n + 1)
    /\ UNCHANGED <<inst, attrs>>

\* a call can be made on the instance
Callable == inst = "live" /\ last.n < MaxCalls

\* __add__(x) with x a formula string, p being the outcome of
\* self.composition(x)
AddParsed(x, p) ==
    IF p.err # ""
    THEN Leave("add", p.err, comp, p.ks, TRUE, NoRt) /\ memo' = NoMemo
    ELSE /\ Recalculate("add", Merge(comp, p.comp), p.ks, TRUE, NoRt)
         /\ memo' = [on |-> TRUE, D |-> x, pre |-> comp]

\* __add__(x) with x a formula string
AddStr(x) ==
    /\ Callable
    /\ AddParsed(x, composition(x, ks))
    /\ UNCHANGED <<original, ctor, parservars, patternvars>>

\* the composition of the Molecule constructed from formula f
MolComp(f) == composition(f, [charge |-> 1, sign |-> "+"]).comp

\* __add__(x) with x another Molecule
AddMol(f) ==
    /\ Callable
    /\ Recalculate("add", Merge(comp, MolComp(f)), ks, FALSE, NoRt)
    /\ memo' = NoMemo
    /\ UNCHANGED <<original, ctor, parservars, patternvars>>

\* __add__(x), __sub__(x) with x neither a str nor a Molecule, and
\* __mul__(x), __div__(x) with x not an int
BadOperand(op) ==
    /\ Callable
    /\ Leave(op, "BadOperand", comp, ks, FALSE, NoRt)
    /\ memo' = NoMemo
    /\ UNCHANGED <<original, ctor, parservars, patternvars>>

\* the end of __sub__ , r being the outcome of its loop
Subtracted(r, k, parsed, rt) ==
    IF r.out = "ok" THEN Recalculate("sub", r.comp, k, parsed, rt)
    ELSE Leave("sub", r.out, r.comp, k, parsed, rt)

\* the part of __sub__ after addition is known
Subtract(addition, k, parsed, rt) ==
    \E order \in Orders(DOMAIN addition) :
        Subtracted(SubLoop(comp, addition, order, 1), k, parsed, rt)

\* __sub__(x) with x a formula string, p being the outcome of
\* self.composition(x)
SubParsed(x, p) ==
    IF p.err # ""
    THEN Leave("sub", p.err, comp, p.ks, TRUE, NoRt)
    ELSE Subtract(p.comp, p.ks, TRUE,
                  IF memo.on /\ memo.D = x /\ last.out = "ok" THEN memo ELSE NoRt)

\* __sub__(x) with x a formula string
SubStr(x) ==
    /\ Callable
    /\ SubParsed(x, composition(x, ks))
    /\ memo' = NoMemo
    /\ UNCHANGED <<original, ctor, parservars, patternvars>>

\* __sub__(x) with x another Molecule
SubMol(f) ==
    /\ Callable
    /\ Subtract(MolComp(f), ks, FALSE, NoRt)
    /\ memo' = NoMemo
    /\ UNCHANGED <<original, ctor, parservars, patternvars>>

\* __mul__(x) with x an int
Mul(x) ==
    /\ Callable
    /\ Recalculate("mul", MulAll(comp, x), ks, FALSE, NoRt)
    /\ memo' = NoMemo
    /\ UNCHANGED <<original, ctor, parservars, patternvars>>

\* the end of __div__ , r being the outcome of its loop
Divided(r) ==
    IF r.out = "ok" THEN Recalculate("div", r.comp, ks, FALSE, NoRt)
    ELSE Leave("div", r.out, r.comp, ks, FALSE, NoRt)

\* __div__(x) with x an int
Div(x) ==
    /\ Callable
    /\ \E order \in Orders(DOMAIN comp) : Divided(DivLoop(comp, x, order, 1))
    /\ memo' = NoMemo
    /\ UNCHANGED <<original, ctor, parservars, patternvars>>

\* reset(): self.__dict__ = self.original. The dict taken over has no entry
\* 'original'; without that entry the call raises AttributeError
Reset ==
    /\ Callable
    /\ IF original.on
       THEN /\ attrs' = original.attrs
            /\ original' = [on |-> FALSE, attrs |-> NoAttrs]
            /\ last' = Call("reset", "ok", FALSE, NoRt, last.n + 1)
       ELSE /\ last' = Call("reset", "AttributeError", FALSE, NoRt, last.n + 1)
            /\ UNCHANGED <<attrs, original>>
    /\ memo' = NoMemo
    /\ UNCHANGED <<inst, comp, ks, ctor, parservars, patternvars>>

Next ==
    \/ \E x \in StrOperands : AddStr(x)
    \/ \E f \in MolOperands : AddMol(f)
    \/ \E x \in StrOperands : SubStr(x)
    \/ \E f \in MolOperands : SubMol(f)
    \/ \E x \in IntOperands : Mul(x)
    \/ \E x \in IntOperands : Div(x)
    \/ \E op \in {"add", "sub", "mul", "div"} : BadOperand(op)
    \/ Reset

Spec == Init /\ [][Next]_vars

(***************************************************************************)
(* ParserSpec: composition(), bracket() and molecularformula() applied to  *)
(* bounded formula strings                                                 *)
(*                                                                         *)
(*   pin     the formula string                                            *)
(*   pstage  "input": nothing applied yet; "parsed": composition(pin) was  *)
(*           run; "bracketed": bracket(pin) was run; "generated":          *)
(*           molecularformula() was run on the composition; "reparsed":    *)
(*           composition() was run on the generated formula                *)
(*   pout    err, comp, ks: outcome of composition(pin) or bracket(pin)    *)
(*           and self.ks (before the call: the configured charge); rest:   *)
(*           the remaining formula bracket returns; sf: the generated      *)
(*           formula; re: outcome of parsing sf                            *)
(***************************************************************************)
\* the characters of the generic input strings
Alphabet == {"C", "H", "(", ")", "2", "+"}

Strings(n) == UNION {[1..len -> Alphabet] : len \in 0..n}

\* configured charges of ParserSpec
ParserCharges == {1, 3}

\* formulas of the documentation and the entry point, and formulas with
\* isotopes, abbreviations, charges and the other bracket families
Examples ==
    { <<"B", "(", "O", "H", ")", "4">>,
      <<"C", "(", "H", "2", "O", ")", "3">>,
      <<"(", "(", "C", "H", "2", ")", "2", "O", ")", "2">>,
      <<"(", "1", "3", "C", ")">>, <<"(", "1", "3", "C", ")", "2">>,
      <<"(", "2", "H", ")", "2", "O">>, <<"C", "(", "2", "H", ")">>,
      <<"C", "H", "1", "2">>, <<"C", "l", "2">>, <<"C", "M", "e", "3">>,
      <<"C", "H", "0">>, <<"H", "0">>,
      <<"(", "2", "+", ")">>, <<"2", "+">>, <<"2", "-">>, <<"+", "2">>, <<"(", "-", "2", ")">>,
      <<"C", "H", "4", "(", "2", "+", ")">>,
      <<"[", "C", "{", "H", "}", "2", "]", "2">>, <<"{", "C", "(", "H">>, <<"Q">>, <<"Q", "2">> }

LifeIdle ==
    /\ inst = "noinst"
    /\ comp = EmptyDict
    /\ ks = [charge |-> 0, sign |-> "+"]
    /\ attrs = NoAttrs
    /\ original = [on |-> FALSE, attrs |-> NoAttrs]
    /\ last = Call("none", "ok", FALSE, NoRt, 0)
    /\ memo = NoMemo
    /\ ctor = [formula |-> <<>>, charge |-> 0, comp |-> EmptyDict,
               ks |-> [charge |-> 0, sign |-> "+"], attrs |-> NoAttrs]

(***************************************************************************)
(* Bracketed formulas written out with the amounts of C, H and O they      *)
(* stand for: a group of one of the three bracket families around element  *)
(* blocks, or around element blocks and one more group, with a multiplier, *)
(* between an optional element block before and after                      *)
(***************************************************************************)
BracketElements == {<<"C">>, <<"H">>, <<"O">>}

Amount(c, h, o) ==
    [e \in BracketElements |-> CASE e = <<"C">> -> c [] e = <<"H">> -> h [] OTHER -> o]

Plus(a, b) == [e \in BracketElements |-> a[e] + b[e]]

Times(n, a) == [e \in BracketElements |-> n * a[e]]

Nothing == [text |-> <<>>, den |-> Amount(0, 0, 0)]

AtomC == [text |-> <<"C">>, den |-> Amount(1, 0, 0)]

AtomH2 == [text |-> <<"H", "2">>, den |-> Amount(0, 2, 0)]

AtomO == [text |-> <<"O">>, den |-> Amount(0, 0, 1)]

Join(x, y) == [text |-> x.text \o y.text, den |-> Plus(x.den, y.den)]

Multipliers ==
    { [text |-> <<>>, m |-> 1], [text |-> <<"2">>, m |-> 2],
      [text |-> <<"3">>, m |-> 3], [text |-> <<"1", "2">>, m |-> 12] }

InnerMultipliers == {mu \in Multipliers : mu.m <= 2}

\* the group of bracket family t around inner, with multiplier mu
Group(t, inner, mu) ==
    [text |-> <<sbrack[t]>> \o inner.text \o <<ebrack[t]>> \o mu.text,
     den |-> Times(mu.m, inner.den)]

PlainInner == {AtomC, AtomH2, AtomO, Join(AtomC, AtomH2), Join(AtomH2, AtomO)}

PlainGroups(mults) == {Group(t, x, mu) : t \in 1..3, x \in PlainInner, mu \in mults}

NestedInner ==
    {Join(Join(a, g), b) : a \in {Nothing, AtomC}, g \in PlainGroups(InnerMultipliers),
                           b \in {Nothing, AtomO}}

\* two groups side by side
SmallGroups == {Group(t, x, mu) : t \in 1..3, x \in {AtomC, AtomH2}, mu \in InnerMultipliers}

SiblingInner == {Join(g, h) : g \in SmallGroups, h \in SmallGroups}

NestedGroups ==
    {Group(t, x, mu) : t \in 1..3, x \in NestedInner \cup SiblingInner, mu \in InnerMultipliers}

BracketCases ==
    {[pre |-> a, group |-> g, post |-> b, nested |-> FALSE] :
        a \in {Nothing, AtomC}, g \in PlainGroups(Multipliers), b \in {Nothing, AtomO, AtomH2}}
    \cup {[pre |-> Nothing, group |-> g, post |-> b, nested |-> TRUE] :
        g \in NestedGroups, b \in {Nothing, AtomO}}

CaseText(x) == x.pre.text \o x.group.text \o x.post.text

BracketTexts == {CaseText(x) : x \in BracketCases}

ParserInputs == Strings(MaxLen) \cup Examples \cup BracketTexts

ParserInit ==
    /\ LifeIdle
    /\ PatternIdle
    /\ pstage = "input"
    /\ pin \in ParserInputs
    /\ \E q \in ParserCharges : pout = [NoOut EXCEPT !.ks = [charge |-> q, sign |-> "+"]]

\* pout with the outcome r of composition or bracket
Outcome(r, dict, rest) == [pout EXCEPT !.err = r.err, !.comp = dict, !.ks = r.ks, !.rest = rest]

\* pout after comp = self.composition(pin) with outcome r
Parsed(r) == Outcome(r, r.comp, <<>>)

\* comp = self.composition(pin)
Parse ==
    /\ pstage = "input"
    /\ pout' = Parsed(composition(pin, pout.ks))
    /\ pstage' = "parsed"
    /\ UNCHANGED <<pin, lifevars, patternvars>>

\* pout after bracket(pin) with outcome r
Bracketed(r) == Outcome(r, r.dict, r.rest)

\* bracket(pin), for a formula that starts with a bracket
Bracket ==
    /\ pstage = "input"
    /\ pin # <<>>
    /\ pin[1] \in SBrackSet
    /\ pout' = Bracketed(bracket(pin, pout.ks))
    /\ pstage' = "bracketed"
    /\ UNCHANGED <<pin, lifevars, patternvars>>

\* sf = self.molecularformula() for the composition parsed
Generate ==
    /\ pstage = "parsed"
    /\ pout.err = ""
    /\ pout' = [pout EXCEPT !.sf = molecularformula(pout.comp)]
    /\ pstage' = "generated"
    /\ UNCHANGED <<pin, lifevars, patternvars>>

\* pout after self.composition(sf) with outcome r
Reparsed(r) == [pout EXCEPT !.re = [err |-> r.err, comp |-> r.comp]]

\* self.composition(sf)
Reparse ==
    /\ pstage = "generated"
    /\ pout' = Reparsed(composition(pout.sf, pout.ks))
    /\ pstage' = "reparsed"
    /\ UNCHANGED <<pin, lifevars, patternvars>>

ParserNext == Parse \/ Bracket \/ Generate \/ Reparse

ParserSpec == ParserInit /\ [][ParserNext]_vars

(***************************************************************************)
(* Properties of Spec                                                      *)
(***************************************************************************)
Mutators == {"add", "sub", "mul", "div"}

\* every count of c is at least 1
CountsPositive(c) == \A key \in DOMAIN c : c[key] >= 1

\* C1: a subtraction that meets a count it would drive negative or a key the
\* composition lacks, and a division that meets a count the divisor does not
\* divide, leave self.comp with the keys and counts it had before the call,
\* whatever the order of the keys.
C1_FailedMutationKeepsComposition ==
    [][(last'.op \in {"sub", "div"}
          /\ last'.out \in {"NegativeAmount", "MissingKeyMessage", "NonInteger"})
        => comp' = comp]_vars

\* C2: after reset() the instance has the composition, formula, configuration
\* and derived fields it had right after construction, in every round.
C2_ResetRestoresConstruction ==
    last.op = "reset" =>
        /\ last.out = "ok"
        /\ comp = ctor.comp
        /\ ks = ctor.ks
        /\ attrs = ctor.attrs

\* C3: every count of the composition of a constructed instance is at least 1.
C3_CountsAtLeastOne == inst = "live" => CountsPositive(comp)

\* C4: adding the formula string D to the composition C and then subtracting
\* D gives back the keys and counts of C.
C4_AddThenSubtractRestores ==
    (last.op = "sub" /\ last.rt.on) => comp = last.rt.pre

\* C5: when a call of a mutation operator has come back, by return or by
\* exception, self.formula and self.sf are the formula generated from the
\* composition the instance then holds (stated for the calls that leave the
\* composition changed).
C5_FormulaFollowsComposition ==
    [][(last'.op \in Mutators /\ last'.out # "hang" /\ comp' # comp) =>
          /\ attrs'.formula = molecularformula(comp')
          /\ attrs'.sf = molecularformula(comp')]_vars

\* C6: a call that parses a formula string operand leaves the charge and the
\* sign of the configuration as they were.
C6_ParsingKeepsCharge == [][last'.parsed => ks' = ks]_vars

(***************************************************************************)
(* Properties of ParserSpec                                                *)
(***************************************************************************)
\* key is a mass number followed by the symbol of an element that has it
IsIsotopeKey(key) ==
    \E n \in 1..(Len(key) - 1) :
        /\ \A i \in 1..n : key[i] \in Digit
        /\ Tail_(key, n + 1) \in DOMAIN md
        /\ IntOf(SubSeq(key, 1, n)) \in md[Tail_(key, n + 1)] \ {0}

\* c has element symbols and isotope designators as keys and counts of 1 or
\* more
ValidComposition(c) ==
    /\ CountsPositive(c)
    /\ \A key \in DOMAIN c : key \in DOMAIN md \/ IsIsotopeKey(key)

\* C7: parsing the formula generated from a valid composition gives a
\* composition with the same keys and counts.
C7_GeneratedFormulaParsesBack ==
    (pstage = "reparsed" /\ ValidComposition(pout.comp)) =>
        /\ pout.re.err = ""
        /\ pout.re.comp = pout.comp

\* a comes before b in the generated formula: carbon, then hydrogen, then the
\* other keys in the order of their strings
HillBefore(a, b) ==
    \/ a = <<"C">>
    \/ a = <<"H">> /\ b # <<"C">>
    \/ a \notin {<<"C">>, <<"H">>} /\ b \notin {<<"C">>, <<"H">>} /\ StrLess(a, b)

\* key, followed by its count unless the count is 1
Token(c, key) == key \o (IF c[key] = 1 THEN <<>> ELSE StrOf(c[key]))

RECURSIVE Tokens(_, _, _)
Tokens(c, order, i) ==
    IF i > Len(order) THEN <<>> ELSE Token(c, order[i]) \o Tokens(c, order, i + 1)

\* text lists every key of c once, in the order above, each with its token
IsHillText(c, text) ==
    \E order \in Orders(DOMAIN c) :
        /\ \A i, j \in 1..Len(order) : i < j => HillBefore(order[i], order[j])
        /\ text = Tokens(c, order, 1)

\* C8: the generated formula lists carbon, then hydrogen, then the other keys
\* in the order of their strings, every key once, followed by its count
\* exactly when the count is not 1.
C8_GeneratedFormulaIsHillText ==
    pstage \in {"generated", "reparsed"} => IsHillText(pout.comp, pout.sf)

\* C9: "B(OH)4" has the composition {B:1, O:4, H:4} and the generated formula
\* BH4O4.
C9_BorateFormula ==
    (pstage = "generated" /\ pin = <<"B", "(", "O", "H", ")", "4">>) =>
        /\ pout.comp = (<<"B">> :> 1 @@ <<"O">> :> 4 @@ <<"H">> :> 4)
        /\ pout.sf = <<"B", "H", "4", "O", "4">>

\* the dict c holds exactly the amounts den
HasAmounts(c, den) ==
    /\ DOMAIN c = {e \in BracketElements : den[e] > 0}
    /\ \A e \in DOMAIN c : c[e] = den[e]

\* C10: a group with multiplier m gives m times the amounts inside it, groups
\* nested in it counted first and amounts of the same element added up;
\* bracket returns as remaining formula the text after the multiplier, and
\* composition adds the blocks before and after the group; "C(H2O)3" is
\* {C:1, H:6, O:3} and "((CH2)2O)2" is {C:4, H:8, O:2}.
C10_BracketGroups ==
    /\ (pstage = "bracketed" /\ pin \in BracketTexts) =>
           \A x \in BracketCases : (CaseText(x) = pin /\ x.pre.text = <<>>) =>
              /\ pout.err = ""
              /\ pout.rest = x.post.text
              /\ HasAmounts(pout.comp, x.group.den)
    /\ (pstage = "parsed" /\ pin \in BracketTexts) =>
           \A x \in BracketCases : CaseText(x) = pin =>
              /\ pout.err = ""
              /\ HasAmounts(pout.comp, Plus(Plus(x.pre.den, x.group.den), x.post.den))
    /\ (pstage = "parsed" /\ pin = <<"C", "(", "H", "2", "O", ")", "3">>) =>
           pout.comp = (<<"C">> :> 1 @@ <<"H">> :> 6 @@ <<"O">> :> 3)
    /\ (pstage = "parsed" /\ pin = <<"(", "(", "C", "H", "2", ")", "2", "O", ")", "2">>) =>
           pout.comp = (<<"C">> :> 4 @@ <<"H">> :> 8 @@ <<"O">> :> 2)

\* C10 witness: bracket has run on a group that holds another group, has a
\* multiplier above 1 and is followed by more text
C10_Witness ==
    /\ pstage = "bracketed"
    /\ pout.err = ""
    /\ pout.rest # <<>>
    /\ \E x \in BracketCases :
          /\ CaseText(x) = pin
          /\ x.nested
          /\ x.group.den[<<"H">>] >= 8

\* the bracket opened at position i of s has a close bracket of its family
\* after it, with as many open as close brackets of the family in between
ClosedLater(s, i) ==
    LET t == CHOOSE u \in 1..3 : sbrack[u] = s[i]
        Between(c, j) == Cardinality({n \in (i + 1)..(j - 1) : s[n] = c})
    IN  \E j \in (i + 1)..Len(s) :
            /\ s[j] = ebrack[t]
            /\ Between(sbrack[t], j) = Between(ebrack[t], j)

\* s opens a bracket that is not closed before the end of s
HasUnclosed(s) == \E i \in 1..Len(s) : s[i] \in SBrackSet /\ ~ClosedLater(s, i)

\* C11: composition() of a formula that opens a bracket it does not close
\* raises and returns no composition.
C11_UnclosedBracketFails ==
    (pstage = "parsed" /\ HasUnclosed(pin)) => pout.err # ""

\* the keys of c that are neither in the mass dictionary nor an isotope of
\* one of its elements
UnresolvedKeys(c) == {key \in DOMAIN c : key \notin DOMAIN md /\ ~IsIsotopeKey(key)}

\* what composition() made of the constructor's formula
CtorParse == composition(ctor.formula, [charge |-> ctor.charge, sign |-> "+"])

\* C12: a constructor call that comes back for a formula holding a key that
\* does not resolve raises the ValueError of isotope() or of checkinnist().
C12_UnknownTokenFails ==
    (last.op = "init" /\ last.out # "hang" /\ CtorParse.err = ""
        /\ UnresolvedKeys(CtorParse.comp) # {})
    => last.out \in {"UnknownSpecies", "UnknownIsotope"}

\* position i of s starts a text with a leading digit: a digit at the start
\* of s or right after an open bracket
DigitLed(s, i) == s[i] \in Digit /\ (i = 1 \/ s[i - 1] \in SBrackSet)

\* s has no charge specifier: no sign, and every text with a leading digit
\* is a digit run followed by a letter
NoChargeSpecifier(s) ==
    /\ \A i \in 1..Len(s) : s[i] \notin modes
    /\ \A i \in 1..Len(s) : DigitLed(s, i) =>
          \E j \in (i + 1)..Len(s) :
              s[j] \in Alpha /\ \A n \in i..(j - 1) : s[n] \in Digit

\* C13: composition("(2+)") and composition("2+") set the charge 2 with the
\* sign "+" and return an empty composition; composition() of a formula
\* without a charge specifier leaves charge and sign as configured.
C13_InlineCharge ==
    [][(pstage = "input" /\ pstage' = "parsed") =>
          /\ pin \in {<<"(", "2", "+", ")">>, <<"2", "+">>} =>
                /\ pout'.err = ""
                /\ pout'.ks = [charge |-> 2, sign |-> "+"]
                /\ pout'.comp = EmptyDict
          /\ NoChargeSpecifier(pin) => pout'.ks = pout.ks]_vars

\* C13 witness: "(2+)" was parsed under another configured charge
C13_Witness ==
    /\ pstage = "parsed"
    /\ pin = <<"(", "2", "+", ")">>
    /\ pout.ks = [charge |-> 2, sign |-> "+"]
    /\ pout.comp = EmptyDict

\* C14: composition("+2") and composition("(-2)") return an empty
\* composition and set the charge 2 with the sign written before the digits.
C14_SignBeforeDigits ==
    /\ (pstage = "parsed" /\ pin = <<"+", "2">>) =>
           /\ pout.err = ""
           /\ pout.comp = EmptyDict
           /\ pout.ks = [charge |-> 2, sign |-> "+"]
    /\ (pstage = "parsed" /\ pin = <<"(", "-", "2", ")">>) =>
           /\ pout.err = ""
           /\ pout.comp = EmptyDict
           /\ pout.ks = [charge |-> 2, sign |-> "-"]

(***************************************************************************)
(* The isotope pattern engine: rawisotopepattern and barisotopepattern     *)
(*                                                                         *)
(* A mass is an integer number of thousandths of a mass unit.  The         *)
(* intensity of entry i of a pattern ip is the fraction 100*ip.n[i]/ip.d,  *)
(* so the float arithmetic of the code is carried out exactly.             *)
(***************************************************************************)
\* largest number of atoms of natural-abundance elements in a composition
\* given to rawisotopepattern
MaxAtoms == 2

\* self.md[ele][iso][0]: the exact masses of the mass table, in thousandths
mass == [e \in DOMAIN md |->
           CASE e = <<"B">> -> [iso \in md[e] |-> CASE iso = 10 -> 10013 [] iso = 11 -> 11009 [] OTHER -> 11009]
             [] e = <<"C">> -> [iso \in md[e] |-> CASE iso = 13 -> 13003 [] iso = 14 -> 14003 [] OTHER -> 12000]
             [] e = <<"H">> -> [iso \in md[e] |-> CASE iso = 2 -> 2014 [] iso = 3 -> 3016 [] OTHER -> 1008]
             [] e = <<"O">> -> [iso \in md[e] |-> CASE iso = 17 -> 16999 [] iso = 18 -> 17999 [] OTHER -> 15995]]

\* self.md[ele][iso][1]: the natural abundances of the mass table, rounded
\* to thousandths (entry 0 holds 1.0); 2H and 17O, below 0.0005, hold 0 as
\* 3H and 14C do
abundance == [e \in DOMAIN md |->
                CASE e = <<"B">> -> [iso \in md[e] |-> CASE iso = 10 -> 199 [] iso = 11 -> 801 [] OTHER -> 1000]
                  [] e = <<"C">> -> [iso \in md[e] |-> CASE iso = 12 -> 989 [] iso = 13 -> 11 [] iso = 14 -> 0 [] OTHER -> 1000]
                  [] e = <<"H">> -> [iso \in md[e] |-> CASE iso = 1 -> 1000 [] iso = 0 -> 1000 [] OTHER -> 0]
                  [] e = <<"O">> -> [iso \in md[e] |-> CASE iso = 16 -> 998 [] iso = 18 -> 2 [] iso = 0 -> 1000 [] OTHER -> 0]]

\* the default of the parameter thresh of rawisotopepattern, 0.01
thresh == [num |-> 1, den |-> 100]

\* the intensity 100*n/d is less than the fraction t
Below(n, d, t) == n <= ((t.num * d) - 1) \div (100 * t.den)

Least(S) == CHOOSE x \in S : \A y \in S : x <= y

Largest(S) == CHOOSE x \in S : \A y \in S : y <= x

\* the members of the set of integers S in ascending order
RECURSIVE Ascending(_)
Ascending(S) == IF S = {} THEN <<>> ELSE <<Least(S)>> \o Ascending(S \ {Least(S)})

\* the sum of f over the set S
RECURSIVE SetSum(_, _)
SetSum(S, f) == IF S = {} THEN 0 ELSE f[Least(S)] + SetSum(S \ {Least(S)}, f)

\* the sum of the sequence q
RECURSIVE SeqSum(_)
SeqSum(q) == IF q = <<>> THEN 0 ELSE Head(q) + SeqSum(Tail(q))

\* the pattern [[0.],[100.]] rawisotopepattern starts from
StartPattern == [mz |-> <<0>>, n |-> <<1>>, d |-> 1]

\* the isotopes of a natural-abundance element that the loop over
\* self.md[key] adds: mass != 0 and a nonzero abundance
Isotopes(key) == {iso \in md[key] : iso # 0 /\ abundance[key][iso] # 0}

\* the intensity the spec.addvalue calls of one atom sum up at mass m, as a
\* numerator over 1000*out.d
AddedAt(out, key, m) ==
    SeqSum([i \in 1..Len(out.mz) |->
              SetSum({iso \in Isotopes(key) : out.mz[i] + mass[key][iso] = m},
                     [iso \in Isotopes(key) |-> out.n[i] * abundance[key][iso]])])

\* the Spectrum object after the addvalue calls of one atom: the intensity
\* 100*y[m]/d at every mass m a value was added at
addvalue(out, key) ==
    [y |-> [m \in {out.mz[i] + mass[key][iso] : i \in 1..Len(out.mz), iso \in Isotopes(key)} |->
                AddedAt(out, key, m)],
     d |-> 1000 * out.d]

\* Spectrum.normalize(top=100.): every intensity is divided by the largest
\* one and multiplied by top
normalize(spec) == [y |-> spec.y, d |-> Largest({spec.y[m] : m \in DOMAIN spec.y})]

\* Spectrum.threshold(t): the entries whose intensity is less than t are
\* dropped
threshold(spec, t) ==
    [y |-> [m \in {x \in DOMAIN spec.y : ~Below(spec.y[x], spec.d, t)} |-> spec.y[m]], d |-> spec.d]

\* the pattern of the masses mz of the Spectrum object spec
Trimmed(spec, mz) == [mz |-> mz, n |-> [i \in 1..Len(mz) |-> spec.y[mz[i]]], d |-> spec.d]

\* Spectrum.trim(): the entries that are set, as [[mz values],[intensities]]
\* in ascending order of mass
trim(spec) == Trimmed(spec, Ascending(DOMAIN spec.y))

\* one pass of the loop over the atoms of a natural-abundance element with
\* the addvalue calls left unnormalized
AtomPassUnnormalized(out, key, t) == trim(threshold(addvalue(out, key), t))

\* one pass of the loop 'for n in range(comp[key])' of rawisotopepattern
AtomPass(out, key, t) == trim(threshold(normalize(addvalue(out, key)), t))

\* the branch of rawisotopepattern for a key that is an isotope: every mass
\* of out is shifted by self.md[ele][iso][0], r being what isotope(key)
\* returned
IsotopeShift(out, r) ==
    [out EXCEPT !.mz = [i \in 1..Len(out.mz) |-> out.mz[i] + mass[r.ele][r.iso]]]

\* the delta of groupmasses, 0.5
delta == 500

\* the loop of groupmasses(ip) from index ind on, out being the groups made
\* so far and num the (1-based) index of the group being filled
RECURSIVE GroupLoop(_, _, _, _)
GroupLoop(ip, ind, num, out) ==
    IF ind > Len(ip.mz) THEN out
    ELSE IF ind + 1 <= Len(ip.mz) /\ ip.mz[ind + 1] - ip.mz[ind] > delta
    THEN GroupLoop(ip, ind + 1, num + 1,
                   [out EXCEPT ![num] = [mz |-> @.mz \o <<ip.mz[ind]>>, n |-> @.n \o <<ip.n[ind]>>]]
                   \o <<[mz |-> <<>>, n |-> <<>>]>>)
    ELSE GroupLoop(ip, ind + 1, num,
                   [out EXCEPT ![num] = [mz |-> @.mz \o <<ip.mz[ind]>>, n |-> @.n \o <<ip.n[ind]>>]])

\* groupmasses(ip)
groupmasses(ip) == GroupLoop(ip, 1, 1, <<[mz |-> <<>>, n |-> <<>>]>>)

\* ipgrouptopoint(ipgroup): the weighted mass s/sum(ipgroup[1]) and the summed
\* intensity 100*y/d.  The weighted mass is held as x.base + x.num/x.den,
\* x.base being the first mass of the group.
ipgrouptopoint(ipgroup) ==
    IF SeqSum(ipgroup.n) = 0
    THEN [err |-> "ZeroDivisionError", x |-> [base |-> 0, num |-> 0, den |-> 1], y |-> 0]
    ELSE [err |-> "",
          x |-> [base |-> ipgroup.mz[1],
                 num |-> SeqSum([i \in 1..Len(ipgroup.mz) |-> (ipgroup.mz[i] - ipgroup.mz[1]) * ipgroup.n[i]]),
                 den |-> SeqSum(ipgroup.n)],
          y |-> SeqSum(ipgroup.n)]

\* the last loop of barisotopepattern over the points out with maxint the
\* largest of their intensities: every mass is divided by abs(charge), the
\* mass of entry i being (mz[i].base + mz[i].num/mz[i].den)/mz[i].z, every
\* intensity is divided by maxint and multiplied by 100.
BarNormalized(out, maxint, charge) ==
    IF charge = 0 \/ maxint = 0 THEN [NoBar EXCEPT !.err = "ZeroDivisionError"]
    ELSE [err |-> "",
          mz |-> [i \in 1..Len(out) |-> [base |-> out[i].x.base, num |-> out[i].x.num,
                                         den |-> out[i].x.den, z |-> Abs(charge)]],
          n |-> [i \in 1..Len(out) |-> out[i].y],
          d |-> maxint]

\* barisotopepattern from the points out of the groups on
BarPoints(out, charge) ==
    IF \E i \in 1..Len(out) : out[i].err # ""
    THEN [NoBar EXCEPT !.err = "ZeroDivisionError"]
    ELSE BarNormalized(out, Largest({out[i].y : i \in 1..Len(out)}), charge)

\* barisotopepattern from the groups groupedip on
BarGroups(groupedip, charge) ==
    BarPoints([g \in 1..Len(groupedip) |-> ipgrouptopoint(groupedip[g])], charge)

\* barisotopepattern(rawip, charge) of an instance
BarIsotopePattern(ip, charge) == BarGroups(groupmasses(ip), charge)

(***************************************************************************)
(* PatternSpec: rawisotopepattern on bounded compositions, one pass of its *)
(* loops a step, and barisotopepattern on its result and on bounded raw    *)
(* patterns.                                                               *)
(***************************************************************************)
\* the keys of the compositions given to rawisotopepattern
NaturalKeys == {<<"C">>, <<"O">>}

IsotopeKeys == {<<"1", "3", "C">>, <<"2", "H">>}

\* the number of atoms of the natural-abundance elements of c
NaturalAtoms(c) ==
    (IF <<"C">> \in DOMAIN c THEN c[<<"C">>] ELSE 0) + (IF <<"O">> \in DOMAIN c THEN c[<<"O">>] ELSE 0)

\* the compositions given to rawisotopepattern
RawCompositions ==
    {c \in UNION {[S -> 0..MaxAtoms] : S \in SUBSET (NaturalKeys \cup IsotopeKeys) \ {{}}} :
        /\ NaturalAtoms(c) <= MaxAtoms
        /\ \A key \in DOMAIN c \cap IsotopeKeys : c[key] >= 1}

\* the raw patterns given to barisotopepattern directly: up to four masses
\* in ascending order, differing by less and by more than delta, with
\* intensities out of 0, 50 and 100 or out of 0, 20 and 40
GivenMasses == {1000, 1300, 2000, 2400}

GivenPatterns ==
    UNION {{[mz |-> Ascending(S), n |-> q, d |-> dd] : q \in [1..Cardinality(S) -> 0..2], dd \in {2, 5}} :
             S \in SUBSET GivenMasses}

\* the charges given to barisotopepattern
BarCharges == {-2, 0, 1}

PatternInit ==
    /\ LifeIdle
    /\ ParserIdle
    /\ barip = NoBar
    /\ \E q \in BarCharges :
          \/ /\ ipstage = "keys"
             /\ \E c \in RawCompositions : \E o \in Orders(DOMAIN c) :
                   ipin = [given |-> FALSE, comp |-> c, order |-> o, charge |-> q]
             /\ ippos = [key |-> 1, n |-> 0]
             /\ rawip = StartPattern
          \/ /\ ipstage = "returned"
             /\ ipin = [given |-> TRUE, comp |-> EmptyDict, order |-> <<>>, charge |-> q]
             /\ ippos = [key |-> 0, n |-> 0]
             /\ rawip \in GivenPatterns

\* the key the loop 'for key in comp' of rawisotopepattern is at
AtKey == ipin.order[ippos.key]

\* rawisotopepattern is in its loop over the keys, at a key
InKeys == ipstage = "keys" /\ ippos.key <= Len(ipin.order)

\* one pass of 'for n in range(comp[key])' for a natural-abundance element
Atom ==
    /\ InKeys
    /\ AtKey \in DOMAIN md
    /\ ippos.n < ipin.comp[AtKey]
    /\ rawip' = AtomPass(rawip, AtKey, thresh)
    /\ ippos' = [ippos EXCEPT !.n = @ + 1]
    /\ UNCHANGED <<ipstage, ipin, barip, lifevars, parservars>>

\* range(comp[key]) is exhausted: on to the next key
KeyDone ==
    /\ InKeys
    /\ AtKey \in DOMAIN md
    /\ ippos.n >= ipin.comp[AtKey]
    /\ ippos' = [key |-> ippos.key + 1, n |-> 0]
    /\ UNCHANGED <<ipstage, ipin, rawip, barip, lifevars, parservars>>

\* the branch of a key that is an isotope, and on to the next key
IsotopeKey ==
    /\ InKeys
    /\ AtKey \notin DOMAIN md
    /\ rawip' = IsotopeShift(rawip, isotope(AtKey))
    /\ ippos' = [key |-> ippos.key + 1, n |-> 0]
    /\ UNCHANGED <<ipstage, ipin, barip, lifevars, parservars>>

\* return out
Return ==
    /\ ipstage = "keys"
    /\ ippos.key > Len(ipin.order)
    /\ ipstage' = "returned"
    /\ UNCHANGED <<ipin, ippos, rawip, barip, lifevars, parservars>>

\* barip = barisotopepattern(rawip, charge)
Bar ==
    /\ ipstage = "returned"
    /\ barip' = BarIsotopePattern(rawip, ipin.charge)
    /\ ipstage' = "barred"
    /\ UNCHANGED <<ipin, ippos, rawip, lifevars, parservars>>

PatternNext == Atom \/ KeyDone \/ IsotopeKey \/ Return \/ Bar

PatternSpec == PatternInit /\ [][PatternNext]_vars

(***************************************************************************)
(* Properties of PatternSpec                                               *)
(***************************************************************************)
\* the number of mass groups of the pattern ip: one more than the number of
\* gaps wider than delta between neighbouring masses
MassGroups(ip) == 1 + Cardinality({i \in 1..(Len(ip.mz) - 1) : ip.mz[i + 1] - ip.mz[i] > delta})

\* ip is non-empty, no intensity of it is negative and its largest is positive
RawPatternFit(ip) ==
    /\ Len(ip.mz) > 0
    /\ ip.d > 0
    /\ \A i \in 1..Len(ip.n) : ip.n[i] >= 0
    /\ \E i \in 1..Len(ip.n) : ip.n[i] > 0

\* C15: for every raw pattern that is non-empty with non-negative
\* intensities and a positive maximum, and every non-zero charge,
\* barisotopepattern produces a bar pattern that has one entry per mass
\* group, as many masses as intensities, a largest intensity of exactly 100
\* and no negative intensity.
C15_BarPatternShape ==
    (ipstage = "barred" /\ RawPatternFit(rawip) /\ ipin.charge # 0)
    => /\ barip.err = ""
       /\ Len(barip.mz) = MassGroups(rawip)
       /\ Len(barip.mz) = Len(barip.n)
       /\ \E i \in 1..Len(barip.n) : barip.n[i] = barip.d
       /\ \A i \in 1..Len(barip.n) : barip.n[i] >= 0 /\ barip.n[i] <= barip.d

\* the exact mass of the isotope an isotope key of the model names
KeyMass(key) == IF key = <<"1", "3", "C">> THEN mass[<<"C">>][13] ELSE mass[<<"H">>][2]

\* C16: in rawisotopepattern a key that is an isotope, with count n, shifts
\* every mass of the running pattern by n times the exact mass of the
\* isotope (the contribution molecularweight adds for the key) and leaves
\* the intensities and the number of entries as they are.
C16_IsotopeCountApplied ==
    [][(InKeys /\ AtKey \notin DOMAIN md /\ ippos'.key = ippos.key + 1)
       => /\ Len(rawip'.mz) = Len(rawip.mz)
          /\ rawip'.n = rawip.n
          /\ rawip'.d = rawip.d
          /\ \A i \in 1..Len(rawip.mz) :
                rawip'.mz[i] = rawip.mz[i] + (ipin.comp[AtKey] * KeyMass(AtKey))]_vars

\* rawip is the running pattern of rawisotopepattern or the pattern it
\* returned
Generated == ipstage \in {"keys", "returned", "barred"} /\ ~ipin.given

\* the pattern ip holds an entry of intensity 100, none above it and none
\* below the fraction t
Thresholded(ip, t) ==
    /\ \E i \in 1..Len(ip.n) : ip.n[i] = ip.d
    /\ \A i \in 1..Len(ip.n) : ip.n[i] <= ip.d /\ ~Below(ip.n[i], ip.d, t)

C18_ConstructionTerminates == last.op = "init" => last.out # "hang"

====
